---- MODULE Spec2Model ----
(***************************************************************************)
(* Model of the EPG proxy's source cache (src/js/logic.js, v3.5):          *)
(* fetchAndFind with its in-memory cache MEMORY_CACHE_MAP, the coalescing  *)
(* registry PENDING_REQUESTS, and getSourceStream with the optional edge   *)
(* cache.  The program runs on one JavaScript event loop: a handler runs   *)
(* until its next await, promise reactions run in registration order and   *)
(* all queued reactions run before the next external event is handled.     *)
(***************************************************************************)
EXTENDS Integers, Sequences, FiniteSets, TLC

(* ---------------- bounds of the exploration ---------------- *)
MaxCalls == 3
MaxTime == 4
\* longest channel string given to the channel-name functions
MaxLen == 3

(* ---------------- configuration read from env ---------------- *)
\* cacheTtl * 1000, in clock units
CacheTtlMs == 2
\* errorCooldown, in clock units
ErrorCooldown == 1
\* maxMemoryCache, in characters
MaxMemoryCache == 2
\* the hard-coded number of entries at which the oldest one is dropped
MaxSources == 5
\* maxSourceSize, in bytes
MaxSourceSize == 2

\* env.EPG_URL and env.EPG_URL_BACKUP: the two sources fetchAndFind is called with
Urls == {"main", "backup"}

\* bodies the upstream may deliver: an empty one, two ordinary ones, an oversized one
Texts == {"", "A", "B", "HUGE"}

Length(t) == IF t = "" THEN 0 ELSE IF t = "HUGE" THEN MaxMemoryCache ELSE 1

\* messages of the errors getSourceStream (or the body read) throws
Errors == {"Timeout", "Too large", "Status", "Network"}

\* the errors of a request that got no response
NetErrors == {"Timeout", "Network"}

\* the content-length header of a response: absent, or a number of bytes
NoLength == -1
ContentLengths == {NoLength, 1, MaxSourceSize, MaxSourceSize + 1}

Undefined == "undefined"
Null == "null"
NotAvailable == "not-available"
NoAnswer == "no-answer"

CallIds == 1..MaxCalls

VARIABLES
  EPG_URL_BACKUP,     \* env.EPG_URL_BACKUP: "backup", or Undefined when not configured
  clock,              \* Date.now()
  hasCaches,          \* typeof caches !== 'undefined'
  edgeCache,          \* caches.default, per source URL: a body or Undefined
  MEMORY_CACHE_MAP,   \* sequence of [key, value] in insertion order
  PENDING_REQUESTS,   \* per URL: id of the registered fetch promise, 0 if none
  fetches,            \* the fetchPromise of each call (id = id of the call that made it)
  calls,              \* the fetchAndFind invocations
  nCalls,             \* number of invocations so far
  microtasks,         \* queued promise reactions: the call to resume and the settled value
  returned,           \* what fetchAndFind returned in the step just taken, if it returned
  fetchedOk,          \* history: the URLs for which a fetch has succeeded
  requests,           \* the handleDiyp invocations
  apiCache,           \* caches.default, per normalized request: a response or Undefined
  responded,          \* the response handleDiyp returned in the step just taken, if any
  arg,                \* the input of the pure function under study
  result              \* what the function computed from arg

vars == <<EPG_URL_BACKUP, clock, hasCaches, edgeCache, MEMORY_CACHE_MAP, PENDING_REQUESTS,
          fetches, calls, nCalls, microtasks, returned, fetchedOk,
          requests, apiCache, responded, arg, result>>

(* ---------------- channel names ---------------- *)
\* A string is a sequence of symbols.  The symbols are the characters that the
\* cleaning rules tell apart; "CCTV"/"cctv", "PLUS" and "HD" stand for these letter groups,
\* "TAI" for the one-character suffix U+53F0 and "EMDASH" for U+2014.
Chars == {"cctv", "CCTV", "5", "+", "PLUS", "-", " ", "HD", "TAI"}
Strings == UNION {[1..n -> Chars] : n \in 0..MaxLen}

Whitespace == {" "}

\* String.prototype.toUpperCase
ToUpperCase(str) ==
  [i \in 1..Len(str) |-> IF str[i] = "cctv" THEN "CCTV" ELSE str[i]]

\* str.replace(/[set]/g, '')
Remove(str, set) == SelectSeq(str, LAMBDA x : x \notin set)

\* String.prototype.trim
RECURSIVE TrimStart(_)
TrimStart(str) ==
  IF str # <<>> /\ Head(str) \in Whitespace THEN TrimStart(Tail(str)) ELSE str
RECURSIVE TrimEnd(_)
TrimEnd(str) ==
  IF str # <<>> /\ str[Len(str)] \in Whitespace
  THEN TrimEnd(SubSeq(str, 1, Len(str) - 1)) ELSE str
Trim(str) == TrimEnd(TrimStart(str))

\* lines 20-454, the entries for CCTV1, CCTV5 and CCTV5+ with the aliases that can
\* be written with the symbols
CHANNEL_ALIASES ==
  << [name |-> <<"CCTV", "1">>,
      aliases |-> << <<"CCTV", "-", "1">>, <<"CCTV", "_", "1">>, <<"CCTV", " ", "1">>,
                     <<"CCTV", "1", "HD">>, <<"CCTV", "-", "1", "HD">> >>],
     [name |-> <<"CCTV", "5">>,
      aliases |-> << <<"CCTV", "-", "5">>, <<"CCTV", " ", "5">>, <<"CCTV", "5", "HD">> >>],
     [name |-> <<"CCTV", "5", "+">>,
      aliases |-> << <<"CCTV", "-", "5", "+">>, <<"CCTV", " ", "5", "+">>,
                     <<"CCTV", "5", "+", "HD">>, <<"CCTV", "5", "PLUS">> >>] >>

\* lines 457-465: the flattened table, as the list of assignments in the order made
RECURSIVE FlattenFrom(_)
FlattenFrom(i) ==
  IF i > Len(CHANNEL_ALIASES) THEN <<>>
  ELSE LET e == CHANNEL_ALIASES[i]
       IN <<[key |-> ToUpperCase(e.name), value |-> e.name]>>
          \o [j \in 1..Len(e.aliases) |->
                [key |-> Remove(ToUpperCase(e.aliases[j]), Whitespace), value |-> e.name]]
          \o FlattenFrom(i + 1)
FLAT_CHANNELS == FlattenFrom(1)

\* FLAT_CHANNELS[key]: the value assigned last, if any
FlatHas(k) == \E i \in 1..Len(FLAT_CHANNELS) : FLAT_CHANNELS[i].key = k
FlatGet(k) ==
  LET is == {i \in 1..Len(FLAT_CHANNELS) : FLAT_CHANNELS[i].key = k}
  IN FLAT_CHANNELS[CHOOSE i \in is : \A j \in is : j <= i].value

\* the suffixes of line 483 that can be written with Chars
Suffixes == {"HD", "TAI"}

\* cleanCh.replace(/(HD|...)$/g, ''): one suffix at the end is removed
StripSuffix(str) ==
  IF str # <<>> /\ str[Len(str)] \in Suffixes THEN SubSeq(str, 1, Len(str) - 1) ELSE str

\* variant: the input is looked up as it was written
normalizeChannelId_Raw(rawCh) ==
  IF rawCh = <<>> THEN <<>>
  ELSE IF FlatHas(rawCh) THEN FlatGet(rawCh)
  ELSE IF FlatHas(StripSuffix(rawCh)) THEN FlatGet(StripSuffix(rawCh))
  ELSE StripSuffix(rawCh)

\* lines 470-486
normalizeChannelId(rawCh) ==
  IF rawCh = <<>> THEN <<>>
  ELSE LET cleanCh == Remove(Remove(ToUpperCase(rawCh), Whitespace), {"-", "_", "EMDASH"})
           baseName == StripSuffix(cleanCh)
       IN IF FlatHas(cleanCh) THEN FlatGet(cleanCh)
          ELSE IF FlatHas(baseName) THEN FlatGet(baseName) ELSE baseName

\* variant: the plus sign is removed with the separators
normalizeName_StripPlus(name) ==
  IF name = <<>> THEN <<>>
  ELSE Remove(ToUpperCase(Trim(name)), Whitespace \cup {"-", "_", "+"})

\* part_002 lines 135-141
normalizeName(name) ==
  IF name = <<>> THEN <<>>
  ELSE Remove(ToUpperCase(Trim(name)), Whitespace \cup {"-", "_"})

\* a document, as far as channel lookup reads it: its channel declarations in
\* document order, each with its id, its display name and its icon; adjacent tells
\* whether the icon element follows the display name with nothing in between
NoIcon == <<>>
IconOf(id) == <<"icon", id>>
Channel(id, name, adjacent) ==
  [id |-> id, name |-> name, icon |-> IconOf(id), adjacent |-> adjacent]
DisplayNames ==
  { <<"CCTV", "5">>, <<"CCTV", "5", "+">>, <<"cctv", " ", "5">>,
    <<" ", "CCTV", "-", "5", "+">> }
Documents ==
  {<<>>} \cup {<<Channel(1, a, FALSE)>> : a \in DisplayNames}
         \cup {<<Channel(1, a, FALSE), Channel(2, b, FALSE)>> :
                 a \in DisplayNames, b \in DisplayNames}

NotFound == [id |-> 0, name |-> <<>>, icon |-> NoIcon]

\* part_002 lines 22-71: exact match first (the icon is searched in the whole
\* channel block), then the first channel whose normalized display name equals
\* the normalized query (the icon is captured only where it follows the name)
findChannelInfo(xml, userChannelName) ==
  LET exact == {j \in 1..Len(xml) :
                  ToUpperCase(Trim(xml[j].name)) = ToUpperCase(Trim(userChannelName))}
      fuzzy == {j \in 1..Len(xml) :
                  normalizeName(xml[j].name) = normalizeName(userChannelName)}
      First(js) == CHOOSE j \in js : \A k \in js : j <= k
  IN IF exact # {}
     THEN [id |-> xml[First(exact)].id, name |-> Trim(userChannelName),
           icon |-> xml[First(exact)].icon]
     ELSE IF fuzzy # {}
     THEN [id |-> xml[First(fuzzy)].id, name |-> xml[First(fuzzy)].name,
           icon |-> IF xml[First(fuzzy)].adjacent THEN xml[First(fuzzy)].icon ELSE NoIcon]
     ELSE NotFound

(* ---------------- Map operations (insertion-ordered) ---------------- *)
MapKeys(m) == {m[i].key : i \in 1..Len(m)}
MapHas(m, k) == k \in MapKeys(m)
MapIndex(m, k) == CHOOSE i \in 1..Len(m) : m[i].key = k
MapGet(m, k) == IF MapHas(m, k) THEN m[MapIndex(m, k)].value ELSE Undefined
MapSet(m, k, v) ==
  IF MapHas(m, k)
  THEN [m EXCEPT ![MapIndex(m, k)] = [key |-> k, value |-> v]]
  ELSE Append(m, [key |-> k, value |-> v])
MapDelete(m, k) ==
  IF MapHas(m, k)
  THEN LET i == MapIndex(m, k) IN SubSeq(m, 1, i - 1) \o SubSeq(m, i + 1, Len(m))
  ELSE m
MapSize(m) == Len(m)

\* JavaScript truthiness of a text field
Truthy(t) == t # Undefined /\ t # ""

\* the object built by {...existing}: absent fields read as undefined (0 for times)
EmptyObject ==
  [text |-> Undefined, expireTime |-> 0, fetchTime |-> 0, lastErrorTime |-> 0,
   errorMsg |-> Undefined]

NoFetch == [stage |-> "none", net |-> FALSE, reactions |-> <<>>]
NoCall == [pc |-> "idle", url |-> Undefined, now |-> 0, joined |-> 0]
Done == [pc |-> "done", url |-> Undefined, now |-> 0, joined |-> 0]
NoReturn == [call |-> 0, answer |-> NoAnswer, site |-> "none"]
NoRequest == [pc |-> "idle", param |-> "ch", rawCh |-> <<>>, ch |-> <<>>, dateParam |-> 0,
              date |-> 0, call |-> 0]
NoResponse == [req |-> 0, status |-> 0]
NoArg == [raw |-> <<>>, xml |-> <<>>]
NoResult == [stage |-> "none", ch |-> <<>>, info |-> NotFound]

\* the sources of this deployment (handleDiyp, lines 654-658)
Sources == {"main"} \cup (IF EPG_URL_BACKUP = Undefined THEN {} ELSE {EPG_URL_BACKUP})

\* the state after module load: the caches are empty, nothing has been called
Loaded ==
  /\ clock = 1
  /\ edgeCache = [u \in Urls |-> Undefined]
  /\ MEMORY_CACHE_MAP = <<>>
  /\ PENDING_REQUESTS = [u \in Urls |-> 0]
  /\ fetches = [c \in CallIds |-> NoFetch]
  /\ calls = [c \in CallIds |-> NoCall]
  /\ nCalls = 0
  /\ microtasks = <<>>
  /\ returned = NoReturn
  /\ fetchedOk = {}
  /\ requests = [r \in CallIds |-> NoRequest]
  /\ apiCache = <<>>
  /\ responded = NoResponse
  /\ result = NoResult

\* the state after module load, in a deployment without a backup source
Init ==
  /\ EPG_URL_BACKUP = Undefined
  /\ hasCaches \in BOOLEAN
  /\ arg = NoArg
  /\ Loaded

\* a step that is not a step of handleDiyp and applies no function to arg
Quiet ==
  /\ responded' = NoResponse
  /\ UNCHANGED <<requests, apiCache, arg, result>>

(* ---------------- promise settlement ---------------- *)
\* the promise of fetch f settles: its reactions are queued in registration order
Settle(f, isOk, v) ==
  /\ fetches' = [fetches EXCEPT ![f].stage = "settled", ![f].reactions = <<>>]
  /\ microtasks' = microtasks \o
        [i \in 1..Len(fetches[f].reactions) |->
           [call |-> fetches[f].reactions[i], ok |-> isOk, value |-> v]]

(* ---------------- fetchAndFind ---------------- *)
\* lines 719-726: build fetchPromise (getSourceStream runs up to its first await)
\* and register it; the caller then awaits it
StartFetch(c, u, now, j) ==
  /\ fetches' = [fetches EXCEPT ![c] =
        [stage |-> IF hasCaches THEN "match" ELSE "net",
         net |-> ~hasCaches, reactions |-> <<c>>]]
  /\ PENDING_REQUESTS' = [PENDING_REQUESTS EXCEPT ![u] = c]
  /\ calls' = [calls EXCEPT ![c] =
        [pc |-> "awaitOwn", url |-> u, now |-> now, joined |-> j]]
  /\ returned' = NoReturn

\* fetchAndFind returns the result of smartFind on ans (or the empty result) at one
\* of its return statements: "cooldown" (701-702), "fresh" (707), "joined" (713),
\* "fetched" (743), "failed" (747-748)
Return(c, ans, where) ==
  /\ calls' = [calls EXCEPT ![c] = Done]
  /\ returned' = [call |-> c, answer |-> ans, site |-> where]

\* variant: the comparison of the elapsed time is inverted
InCooldown_Inverted(m, u, now) ==
  /\ MapHas(m, u)
  /\ MapGet(m, u).lastErrorTime # 0
  /\ now - MapGet(m, u).lastErrorTime > ErrorCooldown

\* lines 698-704
InCooldown(m, u, now) ==
  /\ MapHas(m, u)
  /\ MapGet(m, u).lastErrorTime # 0
  /\ now - MapGet(m, u).lastErrorTime < ErrorCooldown

\* variant: freshness is tested against fetchTime instead of expireTime
IsFresh_WrongField(m, u, now) ==
  /\ MapHas(m, u)
  /\ Truthy(MapGet(m, u).text)
  /\ now < MapGet(m, u).fetchTime

\* line 706
IsFresh(m, u, now) ==
  /\ MapHas(m, u)
  /\ Truthy(MapGet(m, u).text)
  /\ now < MapGet(m, u).expireTime

\* lines 690-726: invocation c, up to its return or its first await
FetchAndFind(c, u) ==
  /\ LET now == clock
         m == MEMORY_CACHE_MAP
     IN
     IF InCooldown(m, u, now)
     THEN /\ Return(c, IF Truthy(MapGet(m, u).text) THEN MapGet(m, u).text
                       ELSE NotAvailable, "cooldown")
          /\ UNCHANGED <<fetches, PENDING_REQUESTS>>
     ELSE IF IsFresh(m, u, now)
     THEN /\ Return(c, MapGet(m, u).text, "fresh")
          /\ UNCHANGED <<fetches, PENDING_REQUESTS>>
     ELSE IF PENDING_REQUESTS[u] # 0
     THEN \* line 712: await the registered promise
          /\ calls' = [calls EXCEPT ![c] =
                [pc |-> "awaitPending", url |-> u, now |-> now,
                 joined |-> PENDING_REQUESTS[u]]]
          /\ fetches' = [fetches EXCEPT ![PENDING_REQUESTS[u]].reactions = Append(@, c)]
          /\ returned' = NoReturn
          /\ UNCHANGED PENDING_REQUESTS
     ELSE StartFetch(c, u, now, 0)
  /\ UNCHANGED <<MEMORY_CACHE_MAP, fetchedOk>>

\* fetchAndFind is invoked for a source of the deployment, by a caller that the
\* model does not follow further
Call(u) ==
  /\ u \in Sources
  /\ microtasks = <<>>
  /\ nCalls < MaxCalls
  /\ nCalls' = nCalls + 1
  /\ FetchAndFind(nCalls + 1, u)
  /\ Quiet
  /\ UNCHANGED <<EPG_URL_BACKUP, clock, hasCaches, edgeCache, microtasks>>

\* variant: the TTL is not added to expireTime
StoreText_NoTtl(m, u, xmlText, now) ==
  IF Length(xmlText) < MaxMemoryCache
  THEN LET m1 == IF MapSize(m) >= MaxSources /\ ~MapHas(m, u)
                 THEN MapDelete(m, m[1].key) ELSE m
       IN MapSet(m1, u, [text |-> xmlText, expireTime |-> now,
                         fetchTime |-> now, lastErrorTime |-> 0, errorMsg |-> Null])
  ELSE m

\* variant: the oldest entry is removed whenever the cache is full
StoreText_EvictOnRefresh(m, u, xmlText, now) ==
  IF Length(xmlText) < MaxMemoryCache
  THEN LET m1 == IF MapSize(m) >= MaxSources THEN MapDelete(m, m[1].key) ELSE m
       IN MapSet(m1, u, [text |-> xmlText, expireTime |-> now + CacheTtlMs,
                         fetchTime |-> now, lastErrorTime |-> 0, errorMsg |-> Null])
  ELSE m

\* lines 730-742: the entry written after a successful fetch
StoreText(m, u, xmlText, now) ==
  IF Length(xmlText) < MaxMemoryCache
  THEN LET m1 == IF MapSize(m) >= MaxSources /\ ~MapHas(m, u)
                 THEN MapDelete(m, m[1].key) ELSE m
       IN MapSet(m1, u, [text |-> xmlText, expireTime |-> now + CacheTtlMs,
                         fetchTime |-> now, lastErrorTime |-> 0, errorMsg |-> Null])
  ELSE m

\* variant: the previous entry is not read
Existing_Forget(m, u) == EmptyObject

\* line 745: const existing = MEMORY_CACHE_MAP.get(sourceUrl) || {}
Existing(m, u) == IF MapHas(m, u) THEN MapGet(m, u) ELSE EmptyObject

\* variant: a failure is not written to the cache at all
StoreError_NoRecord(m, u, msg, now) == m

\* variant: lastErrorTime is not updated
StoreError_KeepTime(m, u, msg, now) ==
  MapSet(m, u, [Existing(m, u) EXCEPT !.fetchTime = now, !.errorMsg = msg])

\* variant: an entry whose TTL has passed is dropped when a fetch fails
StoreError_DropExpired(m, u, msg, now) ==
  IF MapHas(m, u) /\ now >= MapGet(m, u).expireTime
  THEN MapDelete(m, u)
  ELSE MapSet(m, u, [Existing(m, u) EXCEPT !.lastErrorTime = now, !.fetchTime = now,
                                           !.errorMsg = msg])

\* variant: a failed fetch renews the TTL of the entry
StoreError_ExtendTtl(m, u, msg, now) ==
  MapSet(m, u, [Existing(m, u) EXCEPT !.lastErrorTime = now, !.fetchTime = now,
                                      !.errorMsg = msg, !.expireTime = now + CacheTtlMs])

\* line 746: the entry written after a failed fetch
StoreError(m, u, msg, now) ==
  MapSet(m, u, [Existing(m, u) EXCEPT !.lastErrorTime = now, !.fetchTime = now,
                                      !.errorMsg = msg])

\* variant: the caller that awaited another caller's promise lets the rejection out
ResumeJoined_Rethrow(c, ok, value) ==
  /\ calls[c].pc = "awaitPending"
  /\ Return(c, value, IF ok THEN "joined" ELSE "thrown")
  /\ UNCHANGED <<fetches, PENDING_REQUESTS, MEMORY_CACHE_MAP, fetchedOk>>

\* lines 712-716: the caller that awaited another caller's promise resumes
ResumeJoined(c, ok, value) ==
  LET u == calls[c].url
      f == calls[c].joined
      now == calls[c].now
  IN
  /\ calls[c].pc = "awaitPending"
  /\ IF ok
     THEN /\ Return(c, value, "joined")
          /\ UNCHANGED <<fetches, PENDING_REQUESTS>>
     ELSE \* catch: delete whatever is registered, then fall through to lines 719-726
          StartFetch(c, u, now, f)
  /\ UNCHANGED <<MEMORY_CACHE_MAP, fetchedOk>>

\* variant: the registration is removed only when the fetch succeeded
ResumeOwn_KeepOnFailure(c, ok, value) ==
  LET u == calls[c].url
      now == calls[c].now
      m == MEMORY_CACHE_MAP
  IN
  /\ calls[c].pc = "awaitOwn"
  /\ IF ok
     THEN /\ MEMORY_CACHE_MAP' = StoreText(m, u, value, now)
          /\ fetchedOk' = fetchedOk \cup {u}
          /\ Return(c, value, "fetched")
          /\ PENDING_REQUESTS' = [PENDING_REQUESTS EXCEPT ![u] = 0]
     ELSE /\ MEMORY_CACHE_MAP' = StoreError(m, u, value, now)
          /\ UNCHANGED <<fetchedOk, PENDING_REQUESTS>>
          /\ Return(c, IF Truthy(Existing(m, u).text) THEN Existing(m, u).text
                       ELSE NotAvailable, "failed")
  /\ fetches' = [fetches EXCEPT ![c] = NoFetch]

\* variant: the caller starts another fetch when its fetch has failed
ResumeOwn_RetryOnFailure(c, ok, value) ==
  LET u == calls[c].url
      now == calls[c].now
      m == MEMORY_CACHE_MAP
  IN
  /\ calls[c].pc = "awaitOwn"
  /\ IF ok
     THEN /\ MEMORY_CACHE_MAP' = StoreText(m, u, value, now)
          /\ fetchedOk' = fetchedOk \cup {u}
          /\ Return(c, value, "fetched")
          /\ PENDING_REQUESTS' = [PENDING_REQUESTS EXCEPT ![u] = 0]
          /\ fetches' = [fetches EXCEPT ![c] = NoFetch]
     ELSE /\ StartFetch(c, u, now, calls[c].joined)
          /\ UNCHANGED <<MEMORY_CACHE_MAP, fetchedOk>>

\* lines 729-751: the caller that started the fetch resumes
ResumeOwn(c, ok, value) ==
  LET u == calls[c].url
      now == calls[c].now
      m == MEMORY_CACHE_MAP
  IN
  /\ calls[c].pc = "awaitOwn"
  /\ IF ok
     THEN /\ MEMORY_CACHE_MAP' = StoreText(m, u, value, now)
          /\ fetchedOk' = fetchedOk \cup {u}
          /\ Return(c, value, "fetched")
     ELSE /\ MEMORY_CACHE_MAP' = StoreError(m, u, value, now)
          /\ UNCHANGED fetchedOk
          /\ Return(c, IF Truthy(Existing(m, u).text) THEN Existing(m, u).text
                       ELSE NotAvailable, "failed")
  /\ PENDING_REQUESTS' = [PENDING_REQUESTS EXCEPT ![u] = 0]
  /\ fetches' = [fetches EXCEPT ![c] = NoFetch]

\* the promise of call c is resolved when c returns: if a handleDiyp invocation
\* awaits it, its continuation is queued
Awaiters(reqs, ret) ==
  IF ret.call # 0 /\ \E r \in CallIds : reqs[r].call = ret.call
  THEN <<[call |-> ret.call, ok |-> TRUE, value |-> ret.answer]>>
  ELSE <<>>

\* the event loop runs the oldest queued promise reaction, here one of fetchAndFind
RunMicrotask ==
  /\ microtasks # <<>>
  /\ LET job == Head(microtasks)
     IN \/ ResumeJoined(job.call, job.ok, job.value)
        \/ ResumeOwn(job.call, job.ok, job.value)
  /\ microtasks' = Tail(microtasks) \o Awaiters(requests, returned')
  /\ Quiet
  /\ UNCHANGED <<EPG_URL_BACKUP, clock, hasCaches, edgeCache, nCalls>>

(* ---------------- getSourceStream and the body read ---------------- *)
\* lines 523-538: cache.match answered; a hit is read to the end, a miss goes upstream
EdgeMatch(f) ==
  /\ microtasks = <<>>
  /\ fetches[f].stage = "match"
  /\ IF edgeCache[calls[f].url] # Undefined
     THEN /\ Settle(f, TRUE, edgeCache[calls[f].url])
     ELSE /\ fetches' = [fetches EXCEPT ![f].stage = "net", ![f].net = TRUE]
          /\ UNCHANGED microtasks
  /\ returned' = NoReturn
  /\ Quiet
  /\ UNCHANGED <<EPG_URL_BACKUP, clock, hasCaches, edgeCache, MEMORY_CACHE_MAP, PENDING_REQUESTS,
                 calls, nCalls, fetchedOk>>

\* lines 538, 575-579: the request fails before any response: the timer aborts it, or
\* the connection breaks
NetFail(f, e) ==
  /\ microtasks = <<>>
  /\ fetches[f].stage = "net"
  /\ Settle(f, FALSE, e)
  /\ returned' = NoReturn
  /\ Quiet
  /\ UNCHANGED <<EPG_URL_BACKUP, clock, hasCaches, edgeCache, MEMORY_CACHE_MAP, PENDING_REQUESTS,
                 calls, nCalls, fetchedOk>>

\* variant: the advertised content-length is not looked at
NetHeaders_NoSizeCheck(f, ok, len) ==
  /\ microtasks = <<>>
  /\ fetches[f].stage = "net"
  /\ IF ~ok
     THEN Settle(f, FALSE, "Status")
     ELSE /\ fetches' = [fetches EXCEPT ![f].stage = "body"]
          /\ UNCHANGED microtasks
  /\ returned' = NoReturn
  /\ Quiet
  /\ UNCHANGED <<EPG_URL_BACKUP, clock, hasCaches, edgeCache, MEMORY_CACHE_MAP, PENDING_REQUESTS,
                 calls, nCalls, fetchedOk>>

\* variant: the response is handed to cache.put before its length is checked
NetHeaders_PutBeforeCheck(f, ok, len) ==
  /\ microtasks = <<>>
  /\ fetches[f].stage = "net"
  /\ IF ~ok
     THEN Settle(f, FALSE, "Status") /\ UNCHANGED edgeCache
     ELSE IF len # NoLength /\ len > MaxSourceSize
     THEN /\ Settle(f, FALSE, "Too large")
          /\ edgeCache' = IF hasCaches THEN [edgeCache EXCEPT ![calls[f].url] = "HUGE"]
                          ELSE edgeCache
     ELSE /\ fetches' = [fetches EXCEPT ![f].stage = "body"]
          /\ UNCHANGED <<microtasks, edgeCache>>
  /\ returned' = NoReturn
  /\ Quiet
  /\ UNCHANGED <<EPG_URL_BACKUP, clock, hasCaches, MEMORY_CACHE_MAP, PENDING_REQUESTS,
                 calls, nCalls, fetchedOk>>

\* lines 538-574: the response headers arrived, with status ok or not and with the
\* content-length len; a response that passes the checks has its body streamed
NetHeaders(f, ok, len) ==
  /\ microtasks = <<>>
  /\ fetches[f].stage = "net"
  /\ IF ~ok
     THEN Settle(f, FALSE, "Status")
     ELSE IF len # NoLength /\ len > MaxSourceSize
     THEN Settle(f, FALSE, "Too large")
     ELSE /\ fetches' = [fetches EXCEPT ![f].stage = "body"]
          /\ UNCHANGED microtasks
  /\ returned' = NoReturn
  /\ Quiet
  /\ UNCHANGED <<EPG_URL_BACKUP, clock, hasCaches, edgeCache, MEMORY_CACHE_MAP, PENDING_REQUESTS,
                 calls, nCalls, fetchedOk>>

\* line 723 (and 549-561): the body arrived; the tee'd copy completes cache.put
BodyDone(f, t) ==
  /\ microtasks = <<>>
  /\ fetches[f].stage = "body"
  /\ Settle(f, TRUE, t)
  /\ edgeCache' = IF hasCaches THEN [edgeCache EXCEPT ![calls[f].url] = t] ELSE edgeCache
  /\ returned' = NoReturn
  /\ Quiet
  /\ UNCHANGED <<EPG_URL_BACKUP, clock, hasCaches, MEMORY_CACHE_MAP, PENDING_REQUESTS,
                 calls, nCalls, fetchedOk>>

\* line 723: the stream breaks while the body is read
BodyFail(f) ==
  /\ microtasks = <<>>
  /\ fetches[f].stage = "body"
  /\ Settle(f, FALSE, "Network")
  /\ returned' = NoReturn
  /\ Quiet
  /\ UNCHANGED <<EPG_URL_BACKUP, clock, hasCaches, edgeCache, MEMORY_CACHE_MAP, PENDING_REQUESTS,
                 calls, nCalls, fetchedOk>>

\* the edge cache drops an entry (max-age passed, or the platform evicted it)
EdgeEvict(u) ==
  /\ microtasks = <<>>
  /\ hasCaches
  /\ edgeCache[u] # Undefined
  /\ edgeCache' = [edgeCache EXCEPT ![u] = Undefined]
  /\ returned' = NoReturn
  /\ Quiet
  /\ UNCHANGED <<EPG_URL_BACKUP, clock, hasCaches, MEMORY_CACHE_MAP, PENDING_REQUESTS, fetches,
                 calls, nCalls, microtasks, fetchedOk>>

\* time passes between events
Tick ==
  /\ microtasks = <<>>
  /\ clock < MaxTime
  /\ clock' = clock + 1
  /\ returned' = NoReturn
  /\ Quiet
  /\ UNCHANGED <<EPG_URL_BACKUP, hasCaches, edgeCache, MEMORY_CACHE_MAP, PENDING_REQUESTS, fetches,
                 calls, nCalls, microtasks, fetchedOk>>

Next ==
  \/ \E u \in Urls : Call(u)
  \/ RunMicrotask
  \/ \E f \in CallIds : EdgeMatch(f)
  \/ \E f \in CallIds, e \in NetErrors : NetFail(f, e)
  \/ \E f \in CallIds, ok \in BOOLEAN, len \in ContentLengths : NetHeaders(f, ok, len)
  \/ \E f \in CallIds, t \in Texts : BodyDone(f, t)
  \/ \E f \in CallIds : BodyFail(f)
  \/ \E u \in Urls : EdgeEvict(u)
  \/ Tick

Spec == Init /\ [][Next]_vars

(***************************************************************************)
(* Properties                                                              *)
(***************************************************************************)
HasEntry(u) == MapHas(MEMORY_CACHE_MAP, u)
Entry(u) == MapGet(MEMORY_CACHE_MAP, u)
TextPresent(t) == t \notin {Undefined, ""}

\* Fresh and Cooling as the specification defines them, at the current time
EntryFresh(u) ==
  HasEntry(u) /\ TextPresent(Entry(u).text) /\ clock < Entry(u).expireTime
EntryCooling(u) ==
  HasEntry(u) /\ Entry(u).lastErrorTime # 0
              /\ clock - Entry(u).lastErrorTime < ErrorCooldown

\* a fetch that is on the network: request sent, body not yet complete
InFlight(f) == fetches[f].stage \in {"net", "body"}

\* the step starts no fetch and registers nothing
NoFetchStarted == fetches' = fetches /\ PENDING_REQUESTS' = PENDING_REQUESTS

\* the step in which call c, having awaited the fetch it started, handles its outcome
OwnSettled(c) == calls[c].pc = "awaitOwn" /\ calls'[c].pc = "done"
OwnFailure(c) == OwnSettled(c) /\ ~Head(microtasks).ok
OwnSuccess(c) == OwnSettled(c) /\ Head(microtasks).ok

\* C1: when a second call for a URL is issued while the first call's fetch is in
\* flight, the pair performs exactly one network fetch: the call that joined the
\* pending fetch never issues a network fetch of its own, whatever the outcome.
C1_Coalescing ==
  \A j \in CallIds : calls[j].joined # 0 => ~fetches[j].net

\* C2: at most one network fetch is in flight per source URL.
C2_OneInFlightPerUrl ==
  \A u \in Urls : Cardinality({f \in CallIds : InFlight(f) /\ calls[f].url = u}) <= 1

\* C3: a caller that joined an in-flight fetch is answered from the outcome of that
\* fetch; it never waits for a different, later fetch attempt.
C3_SameAttempt ==
  \A c \in CallIds : calls[c].joined # 0 => calls[c].pc # "awaitOwn"

\* C4: a call for a URL whose entry has a text and now < expireTime starts no fetch
\* and is answered from the cached text.
C4_FreshNoNetwork ==
  [][\A u \in Urls : (EntryFresh(u) /\ Call(u)) =>
        /\ NoFetchStarted
        /\ UNCHANGED MEMORY_CACHE_MAP
        /\ returned'.call = nCalls'
        /\ returned'.answer = Entry(u).text]_vars

C4_Witness ==
  \E u \in Urls : /\ returned.site = "fresh"
                  /\ EntryFresh(u)
                  /\ returned.answer = Entry(u).text

\* C5: a call for a URL whose entry has lastErrorTime set and now - lastErrorTime <
\* cooldown starts no fetch; it is answered from the entry's text, unchanged, when
\* there is one and with NotAvailable otherwise.
C5_CoolingNoNetwork ==
  [][\A u \in Urls : (EntryCooling(u) /\ Call(u)) =>
        /\ NoFetchStarted
        /\ UNCHANGED MEMORY_CACHE_MAP
        /\ returned'.call = nCalls'
        /\ returned'.answer = IF TextPresent(Entry(u).text) THEN Entry(u).text
                              ELSE NotAvailable]_vars

C5_Witness ==
  \E u \in Urls : /\ returned.site = "cooldown"
                  /\ EntryCooling(u)
                  /\ ~EntryFresh(u)
                  /\ returned.answer = "A"
                  /\ Entry(u).text = "A"

\* C6: when the fetch a call started fails and the entry holds a text, the call is
\* answered from that text, the text stays, lastErrorTime and errorMsg are set; a
\* call made during the cooldown is then served from that text without a fetch.
C6_StaleIfError ==
  [][/\ \A c \in CallIds :
          (OwnFailure(c) /\ TextPresent(Existing(MEMORY_CACHE_MAP, calls[c].url).text)) =>
            LET u == calls[c].url
                old == MapGet(MEMORY_CACHE_MAP, u)
                new == MapGet(MEMORY_CACHE_MAP', u)
            IN /\ returned'.call = c
               /\ returned'.answer = old.text
               /\ MapHas(MEMORY_CACHE_MAP', u)
               /\ new.text = old.text
               /\ new.lastErrorTime = calls[c].now
               /\ new.lastErrorTime # 0
               /\ new.errorMsg = Head(microtasks).value
               /\ new.errorMsg \in Errors
     /\ \A u \in Urls :
          (EntryCooling(u) /\ TextPresent(Entry(u).text) /\ Call(u)) =>
            NoFetchStarted /\ returned'.answer = Entry(u).text]_vars

C6_Witness ==
  \E u \in Urls : /\ returned.site = "failed"
                  /\ returned.answer = "A"
                  /\ HasEntry(u)
                  /\ Entry(u).text = "A"
                  /\ Entry(u).errorMsg \in Errors
                  /\ clock >= Entry(u).expireTime
                  /\ EntryCooling(u)

\* C7: when the fetch a call started fails and the entry holds no text, the call
\* gets NotAvailable and the failure is recorded; a call made during the cooldown
\* then gets NotAvailable without a fetch.
C7_FailureWithoutText ==
  [][/\ \A c \in CallIds :
          (OwnFailure(c) /\ ~TextPresent(Existing(MEMORY_CACHE_MAP, calls[c].url).text)) =>
            LET u == calls[c].url
                new == MapGet(MEMORY_CACHE_MAP', u)
            IN /\ returned'.call = c
               /\ returned'.answer = NotAvailable
               /\ MapHas(MEMORY_CACHE_MAP', u)
               /\ ~TextPresent(new.text)
               /\ new.lastErrorTime = calls[c].now
               /\ new.lastErrorTime # 0
               /\ new.errorMsg = Head(microtasks).value
     /\ \A u \in Urls :
          (EntryCooling(u) /\ ~TextPresent(Entry(u).text) /\ Call(u)) =>
            NoFetchStarted /\ returned'.answer = NotAvailable]_vars

C7_Witness ==
  \E u \in Urls : /\ returned.site = "cooldown"
                  /\ returned.answer = NotAvailable
                  /\ EntryCooling(u)
                  /\ Entry(u).text = Undefined
                  /\ u \notin fetchedOk

\* C8 as stated: after every successful fetch the entry holds the fetched text with
\* fetchTime = now, expireTime = now + ttl and the error fields cleared, so that it
\* is Fresh and not Cooling.
C8_AsStated ==
  [][\A c \in CallIds : OwnSuccess(c) =>
        LET u == calls[c].url
            new == MapGet(MEMORY_CACHE_MAP', u)
        IN /\ MapHas(MEMORY_CACHE_MAP', u)
           /\ new.text = Head(microtasks).value
           /\ new.fetchTime = calls[c].now
           /\ new.expireTime = calls[c].now + CacheTtlMs
           /\ new.lastErrorTime = 0
           /\ new.errorMsg = Null
           /\ clock' < new.expireTime]_vars

\* C8 amended: after a successful fetch whose text is shorter than maxMemoryCache the
\* entry is exactly {text, expireTime: now + ttl, fetchTime: now, lastErrorTime: 0,
\* errorMsg: null}, now being the time at which the fetching call started, so that
\* it is not Cooling; a longer text leaves the cache as it was.
C8_StoreOnSuccess ==
  [][\A c \in CallIds : OwnSuccess(c) =>
        LET u == calls[c].url
            v == Head(microtasks).value
        IN /\ returned'.answer = v
           /\ IF Length(v) < MaxMemoryCache
              THEN /\ MapHas(MEMORY_CACHE_MAP', u)
                   /\ MapGet(MEMORY_CACHE_MAP', u) =
                        [text |-> v, expireTime |-> calls[c].now + CacheTtlMs,
                         fetchTime |-> calls[c].now, lastErrorTime |-> 0,
                         errorMsg |-> Null]
                   /\ ~(clock' - MapGet(MEMORY_CACHE_MAP', u).lastErrorTime < ErrorCooldown
                        /\ MapGet(MEMORY_CACHE_MAP', u).lastErrorTime # 0)
              ELSE UNCHANGED MEMORY_CACHE_MAP]_vars

C8_Witness ==
  \E u \in Urls : /\ returned.site = "fetched"
                  /\ returned.answer = "A"
                  /\ HasEntry(u)
                  /\ Entry(u) = [text |-> "A", expireTime |-> Entry(u).fetchTime + CacheTtlMs,
                                 fetchTime |-> Entry(u).fetchTime, lastErrorTime |-> 0,
                                 errorMsg |-> Null]
                  /\ Entry(u).fetchTime < clock

\* C9 as stated: an entry whose text is absent belongs to a URL that has never been
\* fetched successfully.
C9_AsStated ==
  \A u \in Urls : (HasEntry(u) /\ Entry(u).text = Undefined) => u \notin fetchedOk

\* C9 amended: an entry whose text is absent was written by a failed fetch
\* (lastErrorTime and errorMsg set, no expireTime) and no text has been stored in it
\* since: an entry that holds a text keeps one for as long as it stays in the cache.
C9_NullTextFromFailure ==
  /\ [](\A u \in Urls : (HasEntry(u) /\ Entry(u).text = Undefined) =>
          /\ Entry(u).lastErrorTime # 0
          /\ Entry(u).errorMsg \in Errors
          /\ Entry(u).expireTime = 0)
  /\ [][\A u \in Urls :
          (HasEntry(u) /\ Entry(u).text # Undefined /\ MapHas(MEMORY_CACHE_MAP', u)) =>
             MapGet(MEMORY_CACHE_MAP', u).text # Undefined]_vars

C9_Witness ==
  \E u \in Urls : /\ HasEntry(u)
                  /\ Entry(u).text = Undefined
                  /\ Entry(u).lastErrorTime # 0
                  /\ returned.site = "failed"
                  /\ returned.answer = NotAvailable

\* C10: the passing of the TTL never removes an entry: an entry that holds a text
\* keeps it in every step, unless a successful fetch for the same URL overwrites it
\* or the store of a new URL into a full cache evicts it as the oldest entry.
C10_NoTtlEviction ==
  [][\A u \in Urls : (HasEntry(u) /\ Entry(u).text # Undefined) =>
        \/ /\ MapHas(MEMORY_CACHE_MAP', u)
           /\ MapGet(MEMORY_CACHE_MAP', u).text = Entry(u).text
        \/ \E c \in CallIds :
             /\ OwnSuccess(c)
             /\ calls[c].url = u
             /\ MapHas(MEMORY_CACHE_MAP', u)
             /\ MapGet(MEMORY_CACHE_MAP', u).text = Head(microtasks).value
        \/ \E c \in CallIds :
             /\ OwnSuccess(c)
             /\ calls[c].url # u
             /\ ~HasEntry(calls[c].url)
             /\ MapSize(MEMORY_CACHE_MAP) >= MaxSources
             /\ MEMORY_CACHE_MAP[1].key = u]_vars

C10_Witness ==
  \E u \in Urls : /\ HasEntry(u)
                  /\ Entry(u).text = "A"
                  /\ clock >= Entry(u).expireTime
                  /\ Entry(u).lastErrorTime = 0
                  /\ returned.site = "none"

(***************************************************************************)
(* fetchAndFind over many source URLs, one call at a time                  *)
(***************************************************************************)
\* one more source URL than the cache is meant to hold
ManyUrls == {"u1", "u2", "u3", "u4", "u5", "u6"}

\* lines 690-752 when no other call overlaps and there is no edge cache: the call
\* runs from its first line to its return, the fetch succeeding with text v (ok)
\* or failing with message v
FetchAndFindAlone(u, ok, v) ==
  /\ microtasks = <<>>
  /\ \A w \in Urls : PENDING_REQUESTS[w] = 0
  /\ LET now == clock
         m == MEMORY_CACHE_MAP
         c == nCalls + 1
     IN
     IF InCooldown(m, u, now)
     THEN /\ returned' = [call |-> c, site |-> "cooldown",
                          answer |-> IF Truthy(MapGet(m, u).text) THEN MapGet(m, u).text
                                     ELSE NotAvailable]
          /\ UNCHANGED <<MEMORY_CACHE_MAP, fetchedOk>>
     ELSE IF IsFresh(m, u, now)
     THEN /\ returned' = [call |-> c, site |-> "fresh", answer |-> MapGet(m, u).text]
          /\ UNCHANGED <<MEMORY_CACHE_MAP, fetchedOk>>
     ELSE IF ok
     THEN /\ MEMORY_CACHE_MAP' = StoreText(m, u, v, now)
          /\ fetchedOk' = fetchedOk \cup {u}
          /\ returned' = [call |-> c, site |-> "fetched", answer |-> v]
     ELSE /\ MEMORY_CACHE_MAP' = StoreError(m, u, v, now)
          /\ returned' = [call |-> c, site |-> "failed",
                          answer |-> IF Truthy(Existing(m, u).text) THEN Existing(m, u).text
                                     ELSE NotAvailable]
          /\ UNCHANGED fetchedOk
  /\ Quiet
  /\ UNCHANGED <<EPG_URL_BACKUP, clock, hasCaches, edgeCache, PENDING_REQUESTS, fetches,
                 calls, nCalls, microtasks>>

FetchSucceeds(u) == FetchAndFindAlone(u, TRUE, "A")
FetchFails(u) == FetchAndFindAlone(u, FALSE, "Status")

InitSources == Init /\ ~hasCaches

NextSources ==
  \/ \E u \in ManyUrls : FetchSucceeds(u)
  \/ \E u \in ManyUrls : FetchFails(u)

SpecSources == InitSources /\ [][NextSources]_vars

Later ==
  /\ microtasks = <<>>
  /\ clock + CacheTtlMs < MaxTime
  /\ clock' = clock + CacheTtlMs
  /\ returned' = NoReturn
  /\ Quiet
  /\ UNCHANGED <<EPG_URL_BACKUP, hasCaches, edgeCache, MEMORY_CACHE_MAP, PENDING_REQUESTS,
                 fetches, calls, nCalls, microtasks, fetchedOk>>

\* successful fetches of many source URLs, with time passing in between
NextEvict == (\E u \in ManyUrls : FetchSucceeds(u)) \/ Later

SpecEvict == InitSources /\ [][NextEvict]_vars

\* C29: when a text is stored for a URL that is not in the cache and the cache
\* holds MaxSources entries or more, exactly one entry is removed, the one inserted
\* earliest, whether it has expired or not; when a text is stored for a URL that
\* is in the cache, no entry is removed; the entries that stay are unchanged.
C29_EvictOldestOnly ==
  [][\A u \in ManyUrls :
       (FetchSucceeds(u) /\ returned'.site = "fetched") =>
          LET m == MEMORY_CACHE_MAP
              gone == IF ~MapHas(m, u) /\ MapSize(m) >= MaxSources THEN {m[1].key} ELSE {}
          IN /\ MapKeys(MEMORY_CACHE_MAP') = (MapKeys(m) \ gone) \cup {u}
             /\ \A w \in MapKeys(m) \ (gone \cup {u}) :
                  MapGet(MEMORY_CACHE_MAP', w) = MapGet(m, w)
             /\ MapGet(MEMORY_CACHE_MAP', u).text = "A"]_vars

\* a sixth URL has been stored, at the expense of an entry that had not expired
C29_Witness ==
  /\ returned.site = "fetched"
  /\ clock = 1
  /\ Cardinality(fetchedOk) = MaxSources + 1
  /\ MapSize(MEMORY_CACHE_MAP) = MaxSources
  /\ \E u \in fetchedOk : ~MapHas(MEMORY_CACHE_MAP, u)

\* C12: the registration of a fetch is removed when the fetch has settled, on success
\* and on failure and with any number of callers waiting for it: the step in which
\* the fetch's owner handles the outcome leaves no registration for the URL, and
\* once all promise reactions have run every registration belongs to a fetch that
\* has not settled yet.
C12_PendingRemoved ==
  /\ [](\A u \in Urls :
          (microtasks = <<>> /\ PENDING_REQUESTS[u] # 0) =>
             /\ fetches[PENDING_REQUESTS[u]].stage \in {"match", "net", "body"}
             /\ calls[PENDING_REQUESTS[u]].url = u)
  /\ [][\A c \in CallIds : OwnSettled(c) => PENDING_REQUESTS'[calls[c].url] = 0]_vars

C12_Witness ==
  \E u \in Urls, c \in CallIds :
     /\ returned.site = "failed"
     /\ PENDING_REQUESTS[u] = 0
     /\ calls[c].pc = "awaitPending"
     /\ calls[c].url = u
     /\ microtasks # <<>>

\* the step in which a promise reaction of call c runs with a rejected fetch
HandlesRejection(c) ==
  /\ microtasks # <<>>
  /\ Head(microtasks).call = c
  /\ ~Head(microtasks).ok
  /\ microtasks' = Tail(microtasks)

\* C14: no fetch error leaves fetchAndFind as an exception: the call that started a
\* failed fetch records the error in the entry and returns the stale text or the
\* empty result; a call that had joined the failed fetch catches the rejection and
\* goes on; what a call returns is never an error.
C14_NoErrorPropagates ==
  /\ [](returned.answer \notin Errors /\ returned.site # "thrown")
  /\ [][\A c \in CallIds : HandlesRejection(c) =>
          LET u == calls[c].url
              msg == Head(microtasks).value
          IN /\ msg \in Errors
             /\ calls[c].pc = "awaitOwn" =>
                  /\ returned' = [call |-> c, site |-> "failed",
                                  answer |-> IF TextPresent(Existing(MEMORY_CACHE_MAP, u).text)
                                             THEN Existing(MEMORY_CACHE_MAP, u).text
                                             ELSE NotAvailable]
                  /\ MapHas(MEMORY_CACHE_MAP', u)
                  /\ MapGet(MEMORY_CACHE_MAP', u).errorMsg = msg
                  /\ MapGet(MEMORY_CACHE_MAP', u).lastErrorTime = calls[c].now
             /\ calls[c].pc = "awaitPending" =>
                  /\ returned' = NoReturn
                  /\ calls'[c].pc = "awaitOwn"
             /\ calls[c].pc \in {"awaitOwn", "awaitPending"}]_vars

C14_Witness ==
  \E u \in Urls, c \in CallIds :
     /\ returned.site = "failed"
     /\ returned.answer = NotAvailable
     /\ HasEntry(u)
     /\ Entry(u).errorMsg = "Timeout"
     /\ calls[c].joined # 0
     /\ calls[c].pc = "awaitOwn"

Fairness ==
  /\ WF_vars(RunMicrotask)
  /\ \A f \in CallIds : WF_vars(EdgeMatch(f))
  /\ \A f \in CallIds :
       WF_vars(\/ \E e \in NetErrors : NetFail(f, e)
               \/ \E ok \in BOOLEAN, len \in ContentLengths : NetHeaders(f, ok, len))

LiveSpec == Spec /\ Fairness

\* C13: a fetch that does not complete within the timeout is cancelled and its
\* registration released, so every fetchAndFind call that waits for a fetch
\* eventually returns.
C13_EveryCallReturns ==
  \A c \in CallIds :
     (calls[c].pc \in {"awaitOwn", "awaitPending"}) ~> (calls[c].pc = "done")

(***************************************************************************)
(* The channel-name functions, applied to every short string               *)
(***************************************************************************)
\* every variable but arg and result
programVars ==
  <<EPG_URL_BACKUP, clock, hasCaches, edgeCache, MEMORY_CACHE_MAP, PENDING_REQUESTS,
    fetches, calls, nCalls, microtasks, returned, fetchedOk, requests, apiCache,
    responded>>

InitNames ==
  /\ EPG_URL_BACKUP = Undefined
  /\ hasCaches = FALSE
  /\ arg \in [raw : Strings, xml : Documents]
  /\ Loaded

\* handleDiyp line 621: the channel parameter is normalized
Normalize ==
  /\ result.stage = "none"
  /\ result' = [stage |-> "normalized", ch |-> normalizeChannelId(arg.raw),
                info |-> NotFound]
  /\ UNCHANGED <<programVars, arg>>

\* smartFind, part_002 line 9: the normalized channel is looked up in the document
\* (handleDiyp has returned at line 647 when the channel is empty)
Resolve ==
  /\ result.stage = "normalized"
  /\ result.ch # <<>>
  /\ result' = [result EXCEPT !.stage = "resolved",
                              !.info = findChannelInfo(arg.xml, result.ch)]
  /\ UNCHANGED <<programVars, arg>>

NextNames == Normalize \/ Resolve

SpecNames == InitNames /\ [][NextNames]_vars

CCTV5 == <<"CCTV", "5">>
CCTV5Plus == <<"CCTV", "5", "+">>

\* the display name of the channel that was found
FoundName == (CHOOSE ch \in {arg.xml[j] : j \in 1..Len(arg.xml)} : ch.id = result.info.id).name

\* C19: normalizeChannelId is idempotent: normalizing a normalized name changes
\* nothing.
C19_Idempotent ==
  result.stage # "none" => normalizeChannelId(result.ch) = result.ch

\* C20: "CCTV5" and "CCTV5+" normalize to different keys, a query written with a
\* plus sign never normalizes to "CCTV5", and a query that normalizes to one of the
\* two is never resolved to a channel whose display name is a spelling of the other.
C20_PlusDistinct ==
  /\ normalizeChannelId(CCTV5) # normalizeChannelId(CCTV5Plus)
  /\ (result.stage # "none" /\ "+" \in {arg.raw[i] : i \in 1..Len(arg.raw)}) =>
        result.ch # CCTV5
  /\ (result.stage = "resolved" /\ result.info # NotFound) =>
        /\ result.ch = CCTV5 => normalizeName(FoundName) = CCTV5
        /\ result.ch = CCTV5Plus => normalizeName(FoundName) = CCTV5Plus

C20_Witness ==
  /\ arg.raw = CCTV5
  /\ result.stage = "resolved"
  /\ result.info.id = 2
  /\ arg.xml[1].name = CCTV5Plus
  /\ normalizeName(arg.xml[2].name) = CCTV5

\* the query after line 476: uppercased, without whitespace, '-', '_' and em-dash
Cleaned(raw) == Remove(Remove(ToUpperCase(raw), Whitespace), {"-", "_", "EMDASH"})

\* C25: when neither the cleaned query nor its suffix-stripped form is in the
\* alias map, normalizeChannelId returns the cleaned query unchanged.
C25_CleanedUnchanged ==
  (/\ result.stage # "none"
   /\ ~FlatHas(Cleaned(arg.raw))
   /\ ~FlatHas(StripSuffix(Cleaned(arg.raw))))
  => result.ch = Cleaned(arg.raw)

(***************************************************************************)
(* Channel lookup in documents of several channels                         *)
(***************************************************************************)
\* most channel declarations in a document
MaxChannels == 3

CCTV1 == <<"CCTV", "1">>

\* the display names of the documents: spellings of CCTV1, one of them a known
\* alias that is more than a respelling, and another channel
ResolveNames ==
  { CCTV1, <<"CCTV", "-", "1">>, <<"cctv", " ", "1">>, <<"CCTV", "1", "HD">>, CCTV5 }
ResolveDocuments ==
  UNION { { [j \in 1..n |-> Channel(j, names[j], adjacent)] :
              names \in [1..n -> ResolveNames], adjacent \in BOOLEAN }
          : n \in 0..MaxChannels }

\* the channel parameter of the request
Queries ==
  { CCTV1, <<"CCTV", "-", "1">>, <<"CCTV", " ", "1">>, <<"cctv", "1">>,
    <<"CCTV", "1", "HD">>, <<" ", "cctv", "-", "1">>, CCTV5 }

InitResolve ==
  /\ EPG_URL_BACKUP = Undefined
  /\ hasCaches = FALSE
  /\ arg \in [raw : Queries, xml : ResolveDocuments]
  /\ Loaded

NextResolve == Normalize \/ Resolve

SpecResolve == InitResolve /\ [][NextResolve]_vars

\* the positions of the channels whose display name equals a query but for case
\* and surrounding whitespace, and of those whose display name normalizes to the
\* key of the query
ExactAt(xml, q) ==
  {j \in 1..Len(xml) : ToUpperCase(Trim(xml[j].name)) = ToUpperCase(Trim(q))}
SameKeyAt(xml, q) ==
  {j \in 1..Len(xml) : normalizeChannelId(xml[j].name) = normalizeChannelId(q)}

\* what handleDiyp resolves the channel parameter raw to
Resolved(xml, raw) == findChannelInfo(xml, normalizeChannelId(raw))

\* C21: the queries "CCTV-1", "CCTV 1" and "cctv1" resolve to the channel that
\* "CCTV1" resolves to, in every document in which "CCTV1" resolves.
C21_SpellingsOfCCTV1 ==
  (/\ result.stage = "resolved"
   /\ arg.raw \in {<<"CCTV", "-", "1">>, <<"CCTV", " ", "1">>, <<"cctv", "1">>}
   /\ Resolved(arg.xml, CCTV1) # NotFound)
  => result.info.id = Resolved(arg.xml, CCTV1).id

C21_Witness ==
  /\ result.stage = "resolved"
  /\ arg.raw = <<"CCTV", " ", "1">>
  /\ Len(arg.xml) = 2
  /\ arg.xml[1].name = <<"cctv", " ", "1">>
  /\ arg.xml[2].name = CCTV1
  /\ result.info.id = 2

\* C22: a channel declaration is matched when normalizeChannelId of its display
\* name equals normalizeChannelId of the query: when the document declares a
\* channel under a known spelling of the channel that the query names, the query
\* resolves to such a channel.
C22_AliasOnBothSides ==
  (/\ result.stage = "resolved"
   /\ \E j \in 1..Len(arg.xml) :
         normalizeChannelId(arg.xml[j].name) = normalizeChannelId(arg.raw))
  => /\ result.info # NotFound
     /\ normalizeChannelId(FoundName) = normalizeChannelId(arg.raw)

\* C23: when the document has a channel whose display name equals the query as
\* it was written, but for case and surrounding whitespace, the query resolves to
\* the id and the icon of such a channel, whatever precedes it in the document.
C23_ExactFastPath ==
  (result.stage = "resolved" /\ ExactAt(arg.xml, arg.raw) # {})
  => \E j \in ExactAt(arg.xml, arg.raw) :
        /\ result.info.id = arg.xml[j].id
        /\ result.info.icon = arg.xml[j].icon

\* C24: when several declarations normalize to the key of the query and none
\* equals the query as written, the query resolves to the first of them in
\* document order; when none normalizes to the key of the query, it resolves to
\* nothing.
C24_FirstInDocumentOrder ==
  result.stage = "resolved"
  => LET same == SameKeyAt(arg.xml, arg.raw)
     IN /\ (same # {} /\ ExactAt(arg.xml, arg.raw) = {})
             => result.info.id = arg.xml[CHOOSE j \in same : \A k \in same : j <= k].id
        /\ same = {} => result.info = NotFound

(***************************************************************************)
(* handleDiyp: the query endpoint, with the primary and the backup source  *)
(***************************************************************************)
\* length of a day in clock units, and the day on which the clock starts
DayMs == 3
FirstDay == 10
Today(t) == FirstDay + (t \div DayMs)

\* the date parameter: absent, a date, or DATE<n>SUB
DateParams ==
  {[kind |-> "none", n |-> 0], [kind |-> "day", n |-> FirstDay], [kind |-> "sub", n |-> 1]}

\* lines 635-645: the date the query is about; 0 when the parameter is absent
ResolveDate(dp, t) ==
  IF dp.kind = "none" THEN 0
  ELSE IF dp.kind = "sub" THEN Today(t) - dp.n
  ELSE dp.n

\* dates and timestamps are strings of characters.  All dates of the model lie
\* in January 2024; its days are numbered from 1
Digits == <<"0", "1", "2", "3", "4", "5", "6", "7", "8", "9">>
TwoDigits(n) == <<Digits[(n \div 10) + 1], Digits[(n % 10) + 1]>>

\* lines 640-643: year-month-day with the month and the day padded to two digits
DateString(day) == <<"2", "0", "2", "4", "-", "0", "1", "-">> \o TwoDigits(day)

\* an XMLTV timestamp YYYYMMDDhhmmss
Stamp(day, hh, mm) ==
  <<"2", "0", "2", "4", "0", "1">> \o TwoDigits(day) \o TwoDigits(hh) \o TwoDigits(mm)
    \o <<"0", "0">>

\* String.prototype.startsWith
StartsWith(str, prefix) ==
  Len(str) >= Len(prefix) /\ SubSeq(str, 1, Len(prefix)) = prefix

\* an absent timestamp (undefined or null)
NoStamp == <<Undefined>>

\* variant: a timestamp of 12 characters is too short
formatTime_OffByOne(raw) ==
  IF raw = NoStamp \/ raw = <<>> \/ Len(raw) <= 12 THEN <<>>
  ELSE <<raw[9], raw[10], ":", raw[11], raw[12]>>

\* part_002 lines 143-146
formatTime(raw) ==
  IF raw = NoStamp \/ raw = <<>> \/ Len(raw) < 12 THEN <<>>
  ELSE SubSeq(raw, 9, 10) \o <<":">> \o SubSeq(raw, 11, 12)

\* part_002 lines 125-128: the CDATA brackets are removed, then the string is trimmed
cleanContent(str) == Trim(Remove(str, {"<![CDATA[", "]]>"}))

\* stands for the title given to a programme without a title element
DefaultTitle == <<"(programme)">>

\* a programme element: its channel attribute, its start and stop attributes
\* (empty when the attribute is missing) and the content of its title element
\* (empty when the element is missing); the k-th title of the model
Title(k) == <<"<![CDATA[", " ", "t", Digits[k + 1], "]]>">>
Programme(channel, day, k) ==
  [channel |-> channel, start |-> Stamp(day, 8 + k, 30), stop |-> Stamp(day, 9 + k, 0),
   title |-> Title(k)]

\* the channel parameter as it arrives: a spelling of CCTV5, or nothing
DiypChannels == {<<"cctv", "-", "5">>, <<>>}

\* the bodies the two sources deliver: one with programmes of CCTV5, one without
\* that channel
DiypTexts == {"A", "B"}

\* what the bodies of Texts contain: the channel declarations, and the programmes
\* with their channel attribute and the day of their start attribute
Channels(text) ==
  IF text = "A" THEN <<Channel(1, CCTV5, FALSE)>>
  ELSE IF text = "B" THEN <<Channel(1, CCTV5Plus, FALSE)>>
  ELSE IF text = "HUGE" THEN <<Channel(1, CCTV5, FALSE), Channel(2, CCTV5Plus, FALSE)>>
  ELSE <<>>
Programmes(text) ==
  IF text \in {"A", "B"} THEN <<Programme(1, FirstDay, 1)>>
  ELSE IF text = "HUGE"
  THEN <<Programme(1, FirstDay - 1, 1), Programme(2, FirstDay, 2),
         Programme(1, FirstDay, 3)>>
  ELSE <<>>

EmptyResult == [programs |-> <<>>, channel_id |-> 0, channel_name |-> <<>>]

\* part_002 lines 96-102: the entry pushed for a programme element
ProgramEntry(pr) ==
  [start |-> formatTime(pr.start),
   end |-> IF pr.stop = <<>> THEN <<>> ELSE formatTime(pr.stop),
   title |-> IF pr.title = <<>> THEN DefaultTitle ELSE cleanContent(pr.title)]

\* variant: the date is not compared
extractPrograms_AnyDate(xml, channelInfo, targetDateStr) ==
  [programs |-> LET found == SelectSeq(xml, LAMBDA pr : pr.channel = channelInfo.id)
                IN [k \in 1..Len(found) |-> ProgramEntry(found[k])],
   channel_id |-> channelInfo.id, channel_name |-> channelInfo.name]

\* part_002 lines 78-119: the elements with the channel attribute of the channel
\* are visited in document order; those whose start attribute begins with the
\* date without its hyphens are pushed
extractPrograms(xml, channelInfo, targetDateStr) ==
  LET targetDateCompact == Remove(targetDateStr, {"-"})
      found == SelectSeq(xml, LAMBDA pr : /\ pr.channel = channelInfo.id
                                          /\ pr.start # <<>>
                                          /\ StartsWith(pr.start, targetDateCompact))
  IN [programs |-> [k \in 1..Len(found) |-> ProgramEntry(found[k])],
      channel_id |-> channelInfo.id, channel_name |-> channelInfo.name]

\* part_002 lines 6-17
smartFind(text, ch, date) ==
  LET channelInfo == findChannelInfo(Channels(text), ch)
  IN IF channelInfo = NotFound THEN EmptyResult
     ELSE extractPrograms(Programmes(text), channelInfo, DateString(date))

\* what fetchAndFind returned, given the text it answered from
ResultOf(answer, ch, date) ==
  IF answer = NotAvailable THEN EmptyResult ELSE smartFind(answer, ch, date)

DoneRequest == [NoRequest EXCEPT !.pc = "done"]

\* the request id of the next invocation
NewRequest == CHOOSE r \in CallIds : requests[r].pc = "idle" /\
                                    \A q \in CallIds : q < r => requests[q].pc # "idle"

\* lines 623-626: the key of the API cache is the URL of the request with ch set
\* to the normalized name (when it is not empty): a channel given as ch is
\* replaced, a channel given as channel or id stays in the URL as it was written,
\* next to the new ch
CacheKey(req) ==
  [ch |-> IF req.ch # <<>> \/ req.param # "ch" THEN req.ch ELSE req.rawCh,
   others |-> IF req.param = "ch" THEN <<>> ELSE <<req.param, req.rawCh>>,
   dateParam |-> req.dateParam]

\* lines 654, 658: handleDiyp calls fetchAndFind for source u and awaits the result
Query(r, req, u, stage) ==
  /\ nCalls < MaxCalls
  /\ nCalls' = nCalls + 1
  /\ FetchAndFind(nCalls + 1, u)
  /\ requests' = [requests EXCEPT ![r] = [req EXCEPT !.pc = stage, !.call = nCalls + 1]]
  /\ responded' = NoResponse
  /\ UNCHANGED apiCache

\* handleDiyp returns resp
Respond(r, resp) ==
  /\ requests' = [requests EXCEPT ![r] = DoneRequest]
  /\ responded' = [resp EXCEPT !.req = r]
  /\ UNCHANGED <<nCalls, calls, fetches, PENDING_REQUESTS, MEMORY_CACHE_MAP, fetchedOk>>

\* variant: the diagnostic carries the normalized channel in place of the input
Response_NormalizedInput(code, req, res) ==
  [req |-> 0, status |-> code, channel |-> req.ch, original_input |-> req.ch,
   date |-> req.date, channel_id |-> res.channel_id, channel_name |-> res.channel_name,
   epg_data |-> res.programs]

\* lines 663-679: the 404 body with debug_info, or result.response
Response(code, req, res) ==
  [req |-> 0, status |-> code, channel |-> req.ch, original_input |-> req.rawCh,
   date |-> req.date, channel_id |-> res.channel_id, channel_name |-> res.channel_name,
   epg_data |-> res.programs]

\* lines 635-654: the date is resolved, the parameters are checked, the primary
\* source is queried
Proceed(r, req0) ==
  LET req == [req0 EXCEPT !.date = ResolveDate(req0.dateParam, clock)]
  IN IF req.ch = <<>> \/ req.date = 0
     THEN /\ Respond(r, Response(400, req, EmptyResult))
          /\ returned' = NoReturn
          /\ UNCHANGED apiCache
     ELSE Query(r, req, "main", "primary")

\* lines 616-633: a request arrives; with an edge cache the handler first awaits
\* cache.match
HandleDiypAs(name, rawCh, dp) ==
  /\ microtasks = <<>>
  /\ \E r \in CallIds : requests[r].pc = "idle"
  /\ LET r == NewRequest
         req == [NoRequest EXCEPT !.param = name, !.rawCh = rawCh,
                                  !.ch = normalizeChannelId(rawCh), !.dateParam = dp]
     IN /\ IF hasCaches
           THEN /\ requests' = [requests EXCEPT ![r] = [req EXCEPT !.pc = "match"]]
                /\ responded' = NoResponse
                /\ returned' = NoReturn
                /\ UNCHANGED <<nCalls, calls, fetches, PENDING_REQUESTS, MEMORY_CACHE_MAP,
                               fetchedOk, apiCache>>
           ELSE Proceed(r, req)
        /\ microtasks' = microtasks \o Awaiters(requests', returned')
  /\ UNCHANGED <<EPG_URL_BACKUP, clock, hasCaches, edgeCache, arg, result>>

\* a request with the channel in the parameter ch
HandleDiyp(rawCh, dp) == HandleDiypAs("ch", rawCh, dp)

\* lines 628-654: cache.match answered: a hit is returned as it is, a miss goes on
ApiMatch(r) ==
  /\ microtasks = <<>>
  /\ requests[r].pc = "match"
  /\ IF MapHas(apiCache, CacheKey(requests[r]))
     THEN /\ Respond(r, MapGet(apiCache, CacheKey(requests[r])))
          /\ returned' = NoReturn
          /\ UNCHANGED apiCache
     ELSE Proceed(r, requests[r])
  /\ microtasks' = microtasks \o Awaiters(requests', returned')
  /\ UNCHANGED <<EPG_URL_BACKUP, clock, hasCaches, edgeCache, arg, result>>

\* variant: the backup source is never asked
DiypContinue_NoBackup ==
  /\ microtasks # <<>>
  /\ calls[Head(microtasks).call].pc = "done"
  /\ LET job == Head(microtasks)
         r == CHOOSE q \in CallIds : requests[q].call = job.call
         req == requests[r]
         res == ResultOf(job.value, req.ch, req.date)
     IN /\ Respond(r, Response(IF res.programs = <<>> THEN 404 ELSE 200, req, res))
        /\ returned' = NoReturn
        /\ apiCache' = IF hasCaches /\ res.programs # <<>>
                       THEN MapSet(apiCache, CacheKey(req), Response(200, req, res))
                       ELSE apiCache
        /\ microtasks' = Tail(microtasks) \o Awaiters(requests', returned')
  /\ UNCHANGED <<EPG_URL_BACKUP, clock, hasCaches, edgeCache, arg, result>>

\* variant: the backup source is asked whatever the primary source returned
DiypContinue_AlwaysBackup ==
  /\ microtasks # <<>>
  /\ calls[Head(microtasks).call].pc = "done"
  /\ LET job == Head(microtasks)
         r == CHOOSE q \in CallIds : requests[q].call = job.call
         req == requests[r]
         res == ResultOf(job.value, req.ch, req.date)
     IN /\ IF req.pc = "primary" /\ EPG_URL_BACKUP # Undefined
           THEN Query(r, req, EPG_URL_BACKUP, "backup")
           ELSE /\ Respond(r, Response(IF res.programs = <<>> THEN 404 ELSE 200, req, res))
                /\ returned' = NoReturn
                /\ apiCache' = IF hasCaches /\ res.programs # <<>>
                               THEN MapSet(apiCache, CacheKey(req), Response(200, req, res))
                               ELSE apiCache
        /\ microtasks' = Tail(microtasks) \o Awaiters(requests', returned')
  /\ UNCHANGED <<EPG_URL_BACKUP, clock, hasCaches, edgeCache, arg, result>>

\* variant: every response is written to the result cache, the 404 included
DiypContinue_CacheAll ==
  /\ microtasks # <<>>
  /\ calls[Head(microtasks).call].pc = "done"
  /\ LET job == Head(microtasks)
         r == CHOOSE q \in CallIds : requests[q].call = job.call
         req == requests[r]
         res == ResultOf(job.value, req.ch, req.date)
         code == IF res.programs = <<>> THEN 404 ELSE 200
     IN /\ IF req.pc = "primary" /\ res.programs = <<>> /\ EPG_URL_BACKUP # Undefined
           THEN Query(r, req, EPG_URL_BACKUP, "backup")
           ELSE /\ Respond(r, Response(code, req, res))
                /\ returned' = NoReturn
                /\ apiCache' = IF hasCaches
                               THEN MapSet(apiCache, CacheKey(req), Response(code, req, res))
                               ELSE apiCache
        /\ microtasks' = Tail(microtasks) \o Awaiters(requests', returned')
  /\ UNCHANGED <<EPG_URL_BACKUP, clock, hasCaches, edgeCache, arg, result>>

\* lines 654-684: fetchAndFind returned to the handleDiyp invocation that awaits it
DiypContinue ==
  /\ microtasks # <<>>
  /\ calls[Head(microtasks).call].pc = "done"
  /\ LET job == Head(microtasks)
         r == CHOOSE q \in CallIds : requests[q].call = job.call
         req == requests[r]
         res == ResultOf(job.value, req.ch, req.date)
     IN /\ IF req.pc = "primary" /\ res.programs = <<>> /\ EPG_URL_BACKUP # Undefined
           THEN Query(r, req, EPG_URL_BACKUP, "backup")
           ELSE /\ Respond(r, Response(IF res.programs = <<>> THEN 404 ELSE 200, req, res))
                /\ returned' = NoReturn
                /\ apiCache' = IF hasCaches /\ res.programs # <<>>
                               THEN MapSet(apiCache, CacheKey(req), Response(200, req, res))
                               ELSE apiCache
        /\ microtasks' = Tail(microtasks) \o Awaiters(requests', returned')
  /\ UNCHANGED <<EPG_URL_BACKUP, clock, hasCaches, edgeCache, arg, result>>

\* a deployment with a backup source, on a runtime without the Cache API
InitDiyp ==
  /\ EPG_URL_BACKUP = "backup"
  /\ hasCaches = FALSE
  /\ arg = NoArg
  /\ Loaded

NextDiyp ==
  \/ \E rawCh \in DiypChannels, dp \in DateParams : HandleDiyp(rawCh, dp)
  \/ DiypContinue
  \/ RunMicrotask
  \/ \E f \in CallIds : NetFail(f, "Timeout")
  \/ \E f \in CallIds : NetHeaders(f, TRUE, NoLength)
  \/ \E f \in CallIds, t \in DiypTexts : BodyDone(f, t)
  \/ Tick

SpecDiyp == InitDiyp /\ [][NextDiyp]_vars

\* the step in which fetchAndFind returns to request r
ContinuesRequest(r) ==
  /\ DiypContinue
  /\ requests[r].call = Head(microtasks).call

\* what the call that request r awaited returned to it
Awaited(r) == ResultOf(Head(microtasks).value, requests[r].ch, requests[r].date)

\* C15: when the primary query yields no programmes and a backup source is
\* configured, the same query (channel and date) is run against the backup source;
\* when the backup query yields programmes, they are what the request returns.
C15_BackupFallback ==
  /\ [][\A r \in CallIds :
          (ContinuesRequest(r) /\ requests[r].pc = "primary" /\ Awaited(r).programs = <<>>
             /\ EPG_URL_BACKUP # Undefined) =>
             /\ FetchAndFind(nCalls + 1, EPG_URL_BACKUP)
             /\ nCalls' = nCalls + 1
             /\ requests'[r] = [requests[r] EXCEPT !.pc = "backup", !.call = nCalls + 1]
             /\ responded' = NoResponse]_vars
  /\ [][\A r \in CallIds :
          (ContinuesRequest(r) /\ requests[r].pc = "backup" /\ Awaited(r).programs # <<>>) =>
             /\ responded'.req = r
             /\ responded'.status = 200
             /\ responded'.epg_data = Awaited(r).programs
             /\ responded'.channel_id = Awaited(r).channel_id]_vars

C15_Witness ==
  /\ responded.status = 200
  /\ responded.epg_data # <<>>
  /\ HasEntry("main")
  /\ Entry("main").text = Undefined
  /\ Entry("main").errorMsg = "Timeout"
  /\ HasEntry("backup")
  /\ Entry("backup").text = "A"

\* C16: the backup source is queried only by a request whose primary query has
\* returned without programmes; a request whose primary query returned programmes
\* answers with them and starts no call, no fetch and changes no cache entry.
C16_PrimaryPreferred ==
  /\ [][\A r \in CallIds :
          (requests'[r].pc = "backup" /\ requests[r].pc # "backup") =>
             /\ requests[r].pc = "primary"
             /\ ContinuesRequest(r)
             /\ Awaited(r).programs = <<>>]_vars
  /\ [][\A c \in CallIds :
          (calls'[c].url = "backup" /\ calls[c].url # "backup") =>
             \E r \in CallIds : requests'[r].pc = "backup" /\ requests'[r].call = c]_vars
  /\ [][\A r \in CallIds :
          (ContinuesRequest(r) /\ requests[r].pc = "primary" /\ Awaited(r).programs # <<>>) =>
             /\ responded'.req = r
             /\ responded'.status = 200
             /\ responded'.epg_data = Awaited(r).programs
             /\ UNCHANGED <<nCalls, calls, fetches, PENDING_REQUESTS, MEMORY_CACHE_MAP>>]_vars

C16_Witness ==
  /\ responded.status = 200
  /\ responded.epg_data # <<>>
  /\ HasEntry("main")
  /\ Entry("main").text = "A"
  /\ ~HasEntry("backup")
  /\ PENDING_REQUESTS["backup"] = 0
  /\ \A c \in CallIds : calls[c].url # "backup"

\* C17: when the primary and the backup query both yield no programmes, the request
\* returns a 404 whose diagnostic carries the channel string as it arrived, the
\* normalized channel and the date of the query (for DATE<n>SUB the resolved day).
C17_NotFoundDiagnostics ==
  /\ [][\A r \in CallIds :
          (ContinuesRequest(r) /\ requests[r].pc = "backup" /\ Awaited(r).programs = <<>>) =>
             /\ responded'.req = r
             /\ responded'.status = 404
             /\ responded'.original_input = requests[r].rawCh
             /\ responded'.channel = normalizeChannelId(requests[r].rawCh)
             /\ responded'.date = requests[r].date
             /\ responded'.epg_data = <<>>]_vars
  /\ [][\A rawCh \in DiypChannels, dp \in DateParams :
          (nCalls' = nCalls + 1 /\ HandleDiyp(rawCh, dp)
             /\ requests'[NewRequest].pc = "primary") =>
             /\ requests'[NewRequest].rawCh = rawCh
             /\ requests'[NewRequest].date = ResolveDate(dp, clock)]_vars
  /\ [][\A r \in CallIds :
          requests[r].pc \in {"primary", "backup"} /\ requests'[r].pc \in {"primary", "backup"}
             => /\ requests'[r].rawCh = requests[r].rawCh
                /\ requests'[r].date = requests[r].date]_vars

C17_Witness ==
  /\ responded.status = 404
  /\ responded.original_input = <<"cctv", "-", "5">>
  /\ responded.channel = CCTV5
  /\ responded.date = FirstDay - 1
  /\ HasEntry("main")
  /\ Entry("main").text = "A"
  /\ HasEntry("backup")
  /\ Entry("backup").text = "B"

\* what a failed fetch of call c leaves untouched: the text and the expireTime of
\* the entry of its URL, and the entries of the other URLs
FailureKeeps(c) ==
  LET u == calls[c].url
      old == Existing(MEMORY_CACHE_MAP, u)
      new == MapGet(MEMORY_CACHE_MAP', u)
  IN /\ MapHas(MEMORY_CACHE_MAP', u)
     /\ new.text = old.text
     /\ new.expireTime = old.expireTime
     /\ \A w \in Urls \ {u} :
          /\ MapHas(MEMORY_CACHE_MAP', w) = MapHas(MEMORY_CACHE_MAP, w)
          /\ MapHas(MEMORY_CACHE_MAP, w) =>
               MapGet(MEMORY_CACHE_MAP', w) = MapGet(MEMORY_CACHE_MAP, w)

\* C30 as stated: a failed fetch changes only lastErrorTime and errorMsg of the
\* entry of its URL: text, fetchTime and expireTime keep their values, and the
\* entries of other URLs are unchanged.
C30_AsStated ==
  [][\A c \in CallIds : OwnFailure(c) =>
        /\ FailureKeeps(c)
        /\ MapGet(MEMORY_CACHE_MAP', calls[c].url).fetchTime =
             Existing(MEMORY_CACHE_MAP, calls[c].url).fetchTime]_vars

\* C30 amended: a failed fetch sets lastErrorTime and fetchTime of the entry of its
\* URL to the time at which the call started, and errorMsg to the message of the
\* error; text and expireTime keep their values (absent when the URL had no
\* entry), and the entries of other URLs are unchanged.
C30_FailureFrame ==
  [][\A c \in CallIds : OwnFailure(c) =>
        /\ FailureKeeps(c)
        /\ MapGet(MEMORY_CACHE_MAP', calls[c].url).lastErrorTime = calls[c].now
        /\ MapGet(MEMORY_CACHE_MAP', calls[c].url).fetchTime = calls[c].now
        /\ MapGet(MEMORY_CACHE_MAP', calls[c].url).errorMsg = Head(microtasks).value]_vars

\* a fetch of the primary source has failed after its text had expired, while the
\* backup source has an entry too
C30_Witness ==
  /\ returned.site = "failed"
  /\ HasEntry("main") /\ HasEntry("backup")
  /\ TextPresent(Entry("main").text)
  /\ Entry("main").lastErrorTime = clock
  /\ Entry("main").fetchTime = clock
  /\ Entry("main").expireTime <= clock
  /\ Entry("backup").lastErrorTime = 0

(***************************************************************************)
(* extractPrograms and formatTime, applied to small inputs                 *)
(***************************************************************************)
\* most programme elements in a document, and the longest timestamp
MaxProgs == 3
MaxStamp == 13

\* the start attributes of the documents: two times on the first day, out of
\* order with the day before, one without a time of day, and a missing attribute
StartStamps ==
  { Stamp(FirstDay, 20, 0), Stamp(FirstDay, 8, 30), Stamp(FirstDay - 1, 23, 59),
    SubSeq(Stamp(FirstDay, 0, 0), 1, 8), <<>> }
ProgDocuments ==
  UNION { { [j \in 1..n |-> [channel |-> chans[j], start |-> starts[j],
                             stop |-> IF j = 1 THEN <<>> ELSE Stamp(FirstDay, 21, j),
                             title |-> IF j = 2 THEN <<>> ELSE Title(j)]] :
              chans \in [1..n -> {1, 2}], starts \in [1..n -> StartStamps] }
          : n \in 0..MaxProgs }

InitPrograms ==
  /\ EPG_URL_BACKUP = Undefined
  /\ hasCaches = FALSE
  /\ arg \in [xml : ProgDocuments, id : {1, 2},
               date : {DateString(FirstDay), DateString(FirstDay + 1)}]
  /\ Loaded

\* smartFind, part_002 line 16, for a channel that was found
Extract ==
  /\ result.stage = "none"
  /\ result' = [stage |-> "extracted",
                programs |-> extractPrograms(arg.xml,
                                             [id |-> arg.id, name |-> CCTV5, icon |-> NoIcon],
                                             arg.date).programs]
  /\ UNCHANGED <<programVars, arg>>

NextPrograms == Extract

SpecPrograms == InitPrograms /\ [][NextPrograms]_vars

\* the positions of the programme elements of the channel that start on the date
Qualifying ==
  {j \in 1..Len(arg.xml) :
     /\ arg.xml[j].channel = arg.id
     /\ Len(arg.xml[j].start) >= 8
     /\ \A i \in 1..8 : arg.xml[j].start[i] = Remove(arg.date, {"-"})[i]}

\* the k-th smallest element of a set of numbers
RECURSIVE Nth(_, _)
Nth(js, k) ==
  LET least == CHOOSE j \in js : \A i \in js : j <= i
  IN IF k = 1 THEN least ELSE Nth(js \ {least}, k - 1)

\* C26: extractPrograms returns exactly the programme entries whose channel
\* attribute is the channel id and whose start begins with the eight digits of the
\* date, in document order; it returns the empty list when there is none.
C26_ExactlyTheEntries ==
  result.stage = "extracted"
  => /\ Len(result.programs) = Cardinality(Qualifying)
     /\ \A k \in 1..Len(result.programs) :
          LET pr == arg.xml[Nth(Qualifying, k)]
          IN /\ result.programs[k].start = formatTime(pr.start)
             /\ result.programs[k].title =
                  (IF pr.title = <<>> THEN DefaultTitle ELSE <<"t", Digits[Nth(Qualifying, k) + 1]>>)

C26_Witness ==
  /\ result.stage = "extracted"
  /\ Len(arg.xml) = 3
  /\ arg.id = 1
  /\ arg.xml[1].channel = 1 /\ arg.xml[1].start = Stamp(FirstDay, 20, 0)
  /\ arg.xml[2].channel = 2 /\ arg.xml[2].start = Stamp(FirstDay, 8, 30)
  /\ arg.xml[3].channel = 1 /\ arg.xml[3].start = Stamp(FirstDay, 8, 30)
  /\ arg.date = DateString(FirstDay)
  /\ Len(result.programs) = 2
  /\ result.programs[1].start = <<"2", "0", ":", "0", "0">>
  /\ result.programs[2].start = <<"0", "8", ":", "3", "0">>

\* the raw timestamps: absent, or any string of two digits up to MaxStamp characters
RawStamps == {NoStamp} \cup UNION {[1..n -> {"0", "7"}] : n \in 0..MaxStamp}

InitTime ==
  /\ EPG_URL_BACKUP = Undefined
  /\ hasCaches = FALSE
  /\ arg \in [raw : RawStamps]
  /\ Loaded

\* part_002 lines 97-98: a timestamp is formatted
FormatTime ==
  /\ result.stage = "none"
  /\ result' = [stage |-> "formatted", time |-> formatTime(arg.raw)]
  /\ UNCHANGED <<programVars, arg>>

NextTime == FormatTime

SpecTime == InitTime /\ [][NextTime]_vars

\* C27: formatTime returns "" for an absent timestamp and for every timestamp
\* shorter than 12 characters, and the characters [8,10), ":" and [10,12) for
\* every timestamp of 12 or more characters.
C27_FormatTime ==
  result.stage = "formatted"
  => IF arg.raw = NoStamp \/ Len(arg.raw) < 12
     THEN result.time = <<>>
     ELSE /\ Len(result.time) = 5
          /\ result.time[1] = arg.raw[9] /\ result.time[2] = arg.raw[10]
          /\ result.time[3] = ":"
          /\ result.time[4] = arg.raw[11] /\ result.time[5] = arg.raw[12]

C27_Witness ==
  /\ result.stage = "formatted"
  /\ Len(arg.raw) = 12
  /\ arg.raw[9] = "0" /\ arg.raw[10] = "7" /\ arg.raw[11] = "7" /\ arg.raw[12] = "0"
  /\ result.time = <<"0", "7", ":", "7", "0">>

(***************************************************************************)
(* handleDownload: the source served as XML or as gzip                     *)
(***************************************************************************)
\* the Content-Type header of the source; Undefined when the header is absent
ContentTypes ==
  {Undefined, "application/xml", "application/octet-stream", "application/gzip",
   "application/x-gzip"}

\* the bytes of a body are an XML text, the gzip compression of some bytes, or
\* nothing usable
Gzip(bytes) == <<"gzip", bytes>>
Xml == <<"xml">>
Broken == <<"broken">>

\* part_002 lines 148-160: the URL ends in .gz, or the content type names gzip
isGzipContent(type, endsWithGz) ==
  endsWithGz \/ type \in {"application/gzip", "application/x-gzip"}

\* DecompressionStream('gzip') and CompressionStream('gzip') applied to a body:
\* decompressing bytes that are not gzip makes the stream fail
Decompress(bytes) == IF bytes[1] = "gzip" THEN bytes[2] ELSE Broken
Compress(bytes) == Gzip(bytes)

\* the request and what the source will deliver for it
InitDownload ==
  /\ EPG_URL_BACKUP = Undefined
  /\ hasCaches = FALSE
  /\ arg \in [targetFormat : {"xml", "gz"}, endsWithGz : BOOLEAN, type : ContentTypes,
               body : {Xml, Gzip(Xml)}]
  /\ Loaded

\* lines 585-607: getSourceStream has returned the stream of the source
DownloadOk ==
  /\ result.stage = "none"
  /\ LET isGzip == isGzipContent(arg.type, arg.endsWithGz)
     IN result' =
          [stage |-> "downloaded", status |-> 200,
           contentType |-> IF arg.targetFormat = "xml" THEN "application/xml; charset=utf-8"
                           ELSE "application/gzip",
           body |-> IF arg.targetFormat = "xml"
                    THEN (IF isGzip THEN Decompress(arg.body) ELSE arg.body)
                    ELSE (IF ~isGzip THEN Compress(arg.body) ELSE arg.body),
           failed |-> FALSE]
  /\ UNCHANGED <<programVars, arg>>

\* lines 608-610: getSourceStream has thrown e
DownloadFails(e) ==
  /\ result.stage = "none"
  /\ result' = [stage |-> "downloaded", status |-> 502, contentType |-> Undefined,
                body |-> <<"Download Error", e>>, failed |-> TRUE]
  /\ UNCHANGED <<programVars, arg>>

NextDownload == DownloadOk \/ \E e \in Errors : DownloadFails(e)

SpecDownload == InitDownload /\ [][NextDownload]_vars

\* C28: the download endpoints deliver the requested format whatever the format
\* of the source: XML for the target xml and the gzip compression of XML for the
\* target gz; a failure to fetch the source is answered with status 502.
C28_RequestedFormat ==
  result.stage = "downloaded"
  => IF result.failed THEN result.status = 502
     ELSE /\ result.status = 200
          /\ result.body = (IF arg.targetFormat = "xml" THEN Xml ELSE Gzip(Xml))

(***************************************************************************)
(* Further properties of fetchAndFind, getSourceStream and handleDiyp      *)
(***************************************************************************)
\* C31: the cooldown is measured from the moment the fetch failed: when the fetch
\* of a call fails at time t, a call for the URL that starts at a time in
\* [t, t + cooldown) finds the entry in cooldown (or its text fresh) and so
\* performs no network fetch.
C31_CooldownFromFailure ==
  [][\A c \in CallIds : OwnFailure(c) =>
        \A t \in clock'..(clock' + ErrorCooldown - 1) :
           \/ InCooldown(MEMORY_CACHE_MAP', calls[c].url, t)
           \/ IsFresh(MEMORY_CACHE_MAP', calls[c].url, t)]_vars

\* C32: a registration in PENDING_REQUESTS is removed or replaced only when the
\* fetch it refers to has settled.
C32_RemovedOnlyWhenSettled ==
  [][\A u \in Urls :
       (PENDING_REQUESTS[u] # 0 /\ PENDING_REQUESTS'[u] # PENDING_REQUESTS[u]) =>
          fetches[PENDING_REQUESTS[u]].stage = "settled"]_vars

\* how far a call has come: it may await another caller's fetch, then its own
CallRank(pc) ==
  IF pc = "idle" THEN 0 ELSE IF pc = "awaitPending" THEN 1
  ELSE IF pc = "awaitOwn" THEN 2 ELSE 3

\* C33: a call starts at most one fetch itself and awaits at most one fetch of
\* another caller: it never goes back, it starts its fetch only when it has none
\* behind it, and every settlement it handles takes it one stage further, so that
\* it returns after at most two settlements.
C33_BoundedRetry ==
  [][\A c \in CallIds :
       /\ CallRank(calls'[c].pc) >= CallRank(calls[c].pc)
       /\ (fetches[c].stage = "none" /\ fetches'[c].stage # "none") =>
             /\ calls[c].pc \in {"idle", "awaitPending"}
             /\ calls'[c].pc = "awaitOwn"
       /\ (/\ microtasks # <<>>
           /\ Head(microtasks).call = c
           /\ calls[c].pc \in {"awaitPending", "awaitOwn"}) =>
             CallRank(calls'[c].pc) > CallRank(calls[c].pc)]_vars

\* a call has awaited the fetch of another caller, which failed, and then its
\* own fetch, which has settled too
C33_Witness ==
  \E c \in CallIds : /\ calls[c].pc = "awaitOwn"
                     /\ calls[c].joined # 0
                     /\ fetches[c].stage = "settled"

\* the step in which the fetch f fails: it settles, and its callers are resumed
\* with an error
FetchFailure(f) ==
  /\ fetches[f].stage \in {"net", "body"}
  /\ fetches'[f].stage = "settled"
  /\ microtasks' # <<>>
  /\ ~microtasks'[Len(microtasks')].ok

\* C34: a fetch that fails (status, content-length over the limit, timeout or
\* network error) leaves the edge cache as it was; an entry is written to the
\* edge cache only by a fetch for its URL whose body arrived complete.
C34_EdgeCacheOnlyOnSuccess ==
  [][/\ \A f \in CallIds : FetchFailure(f) => UNCHANGED edgeCache
     /\ \A u \in Urls :
          (edgeCache'[u] # edgeCache[u] /\ edgeCache'[u] # Undefined) =>
             \E f \in CallIds : /\ calls[f].url = u
                                /\ fetches[f].stage = "body"
                                /\ fetches'[f].stage = "settled"
                                /\ microtasks'[Len(microtasks')].ok
                                /\ microtasks'[Len(microtasks')].value = edgeCache'[u]]_vars

\* a response over the size limit was refused, and the edge cache has no entry
C34_Witness ==
  /\ hasCaches
  /\ microtasks # <<>>
  /\ ~Head(microtasks).ok
  /\ Head(microtasks).value = "Too large"
  /\ \A u \in Urls : edgeCache[u] = Undefined

(***************************************************************************)
(* handleDiyp on a runtime with the Cache API: the result cache            *)
(***************************************************************************)
\* lines 501-510, 618: the channel of a request, under one of the three accepted
\* parameter names and in one of its spellings, or missing
ApiQueries ==
  {<<"ch", <<"cctv", "-", "5">>>>, <<"ch", CCTV5>>, <<"id", <<"cctv", "-", "5">>>>,
   <<"ch", <<>>>>}

\* the date parameter of these requests: a date, or absent
ApiDates == {dp \in DateParams : dp.kind # "sub"}

\* a deployment with a backup source, on a runtime with the Cache API
InitApi ==
  /\ EPG_URL_BACKUP = "backup"
  /\ hasCaches = TRUE
  /\ arg = NoArg
  /\ Loaded

NextApi ==
  \/ \E q \in ApiQueries, dp \in ApiDates : HandleDiypAs(q[1], q[2], dp)
  \/ \E r \in CallIds : ApiMatch(r)
  \/ DiypContinue
  \/ RunMicrotask
  \/ \E f \in CallIds : EdgeMatch(f)
  \/ \E f \in CallIds : NetHeaders(f, TRUE, NoLength)
  \/ \E f \in CallIds, t \in DiypTexts : BodyDone(f, t)

SpecApi == InitApi /\ [][NextApi]_vars

\* handleDiyp returns to request r in this step
Answers(r) == requests[r].pc # "done" /\ requests'[r].pc = "done"

\* C35: only a result with programmes is written to the result cache: a step that
\* answers 404 or 400 leaves the cache as it was, every write stores the 200
\* response of the request that is answered in the same step, under its key, and
\* a request that finds nothing under its key is evaluated again.
C35_OnlyResultsWithProgrammes ==
  [][/\ \A r \in CallIds :
          (Answers(r) /\ responded'.status \in {400, 404}) => UNCHANGED apiCache
     /\ apiCache' # apiCache =>
          \E r \in CallIds :
             /\ Answers(r)
             /\ requests[r].pc \in {"primary", "backup"}
             /\ responded'.req = r
             /\ responded'.status = 200
             /\ responded'.epg_data # <<>>
             /\ apiCache' = MapSet(apiCache, CacheKey(requests[r]), [responded' EXCEPT !.req = 0])
     /\ \A r \in CallIds :
          (/\ requests[r].pc = "match" /\ requests'[r].pc # "match"
           /\ ~MapHas(apiCache, CacheKey(requests[r]))) =>
             \/ requests'[r].pc = "primary" /\ nCalls' = nCalls + 1
             \/ responded'.status = 400]_vars

\* two requests were evaluated, the second was answered 404 and nothing was stored
C35_Witness ==
  /\ hasCaches
  /\ nCalls = 2
  /\ requests[1].pc = "done"
  /\ responded.req = 2
  /\ responded.status = 404
  /\ apiCache = <<>>

\* the keys of the result cache written for the channel and the date parameter
\* of request req
KeysFor(req) ==
  {k \in MapKeys(apiCache) : k.ch = req.ch /\ k.dateParam = req.dateParam}

\* C36: the key of the result cache is canonical in the channel: a request whose
\* channel (given as ch, channel or id, in any spelling) normalizes to the channel
\* of a cached result for the same date parameter is answered with that cached
\* result, without a query.
C36_CanonicalKey ==
  [][\A r \in CallIds :
       (requests[r].pc = "match" /\ requests'[r].pc # "match" /\ KeysFor(requests[r]) # {}) =>
          /\ Answers(r)
          /\ nCalls' = nCalls
          /\ \E k \in KeysFor(requests[r]) : responded' = [MapGet(apiCache, k) EXCEPT !.req = r]]_vars

====
